---- MODULE Spec2Model ----
(***************************************************************************)
(* Model of autonomous/agent.py: the supervisory loop that runs the        *)
(* external agent as a subprocess, keeps progress.json on disk and picks   *)
(* the instruction of every session.                                       *)
(*                                                                         *)
(* Python's None is the empty tuple and a present value v is <<v>>.        *)
(* A text is a sequence of fragments; a fragment is a phrase written in    *)
(* one letter case ("upper": TASK COMPLETE, "capital": Task complete /     *)
(* All done, "lower": task complete).                                      *)
(***************************************************************************)
EXTENDS Integers, Sequences, FiniteSets, TLC

\* ---------------------------------------------------------------- bounds
MaxSessions == 3
MaxCeiling == 2
MaxOutLen == 1
MaxEdits == 1

\* ------------------------------------------------------- program constants
AUTO_CONTINUE_DELAY == 3

\* ------------------------------------------------------------ value spaces
None == <<>>

Some(v) == <<v>>

Tasks == {"Fix bug X", "Add feature Y"}

TaskTypes == {"bug_fix", "openspec", "other"}

NextTasks == {None} \cup {Some([type |-> t]) : t \in TaskTypes}

Shapes == {"upper", "capital", "lower"}

AgentPhrases == {"task complete", "all done"}

Fragments == [phrase : AgentPhrases, shape : Shapes]

Frag(p, s) == [phrase |-> p, shape |-> s]

SeqsUpTo(S, n) == UNION {[1..k -> S] : k \in 0..n}

StdoutTexts == SeqsUpTo(Fragments, MaxOutLen)

StderrTexts == {<<>>, <<Frag("task complete", "upper")>>}

\* What subprocess.run can do: exit with a return code, time out, or fail.
RawResults ==
    [kind : {"exit"}, returncode : {0, 1}, stdout : StdoutTexts, stderr : StderrTexts]
    \cup {[kind |-> "timeout", returncode |-> 0, stdout |-> <<>>, stderr |-> <<>>],
          [kind |-> "error", returncode |-> 0, stdout |-> <<>>, stderr |-> <<>>]}

MaxIterationArgs == {None} \cup {Some(n) : n \in 0..MaxCeiling}

Args == [task : {None} \cup {Some(t) : t \in Tasks},
         max_iterations : MaxIterationArgs,
         dry_run : BOOLEAN]

\* ------------------------------------------------------------ ProgressStore
default_progress ==
    [iterations |-> 0, tasks_completed |-> <<>>, current_task |-> None,
     next_task |-> None, started_at |-> None, last_session |-> None]

AbsentFile == [kind |-> "absent", data |-> None]

EmptyFile == [kind |-> "empty", data |-> None]

MalformedFile == [kind |-> "malformed", data |-> None]

JsonFile(p) == [kind |-> "json", data |-> Some(p)]

\* A load that swallows the parse error and starts afresh.
load_progress_lenient(f) ==
    IF f.kind = "json" THEN [raised |-> FALSE, value |-> f.data[1]]
    ELSE [raised |-> FALSE, value |-> default_progress]

\* load_progress: the default when the file does not exist, json.load(f)
\* otherwise; json.load raises on an empty or unparseable file.
load_progress(f) ==
    IF f.kind = "absent" THEN [raised |-> FALSE, value |-> default_progress]
    ELSE IF f.kind = "json" THEN [raised |-> FALSE, value |-> f.data[1]]
    ELSE [raised |-> TRUE, value |-> default_progress]

\* save_progress: the file becomes the JSON dump of the dictionary.
save_progress(p) == JsonFile(p)

\* ------------------------------------------------------------ PromptSelector
get_task_prompt(task) == [kind |-> "task", task |-> Some(task)]

\* A selector that knows only the bug-fix task type.
get_continuation_prompt_bug_fix_only(p) ==
    IF p.next_task # None /\ p.next_task[1].type = "bug_fix"
    THEN [kind |-> "bug_fix", task |-> None]
    ELSE [kind |-> "default", task |-> None]

get_continuation_prompt(p) ==
    IF p.next_task # None /\ p.next_task[1].type = "bug_fix"
    THEN [kind |-> "bug_fix", task |-> None]
    ELSE IF p.next_task # None /\ p.next_task[1].type = "openspec"
    THEN [kind |-> "openspec", task |-> None]
    ELSE [kind |-> "default", task |-> None]

NoPrompt == [kind |-> "unset", task |-> None]

\* ----------------------------------------------------------- SessionExecutor
TIMEOUT == <<Frag("timeout", "upper")>>

STDERR == <<Frag("stderr:", "upper")>>

ErrorText == <<Frag("errno", "capital")>>

\* An executor that reports a timeout as a clean exit.
run_claude_session_timeout_ok(r) ==
    IF r.kind = "timeout" THEN [exit_code |-> 0, output |-> TIMEOUT]
    ELSE IF r.kind = "error" THEN [exit_code |-> 1, output |-> ErrorText]
    ELSE [exit_code |-> r.returncode,
          output |-> IF r.stderr # <<>> THEN r.stdout \o STDERR \o r.stderr
                     ELSE r.stdout]

\* run_claude_session: (exit_code, output) of one subprocess.run
run_claude_session(r) ==
    IF r.kind = "timeout" THEN [exit_code |-> 1, output |-> TIMEOUT]
    ELSE IF r.kind = "error" THEN [exit_code |-> 1, output |-> ErrorText]
    ELSE [exit_code |-> r.returncode,
          output |-> IF r.stderr # <<>> THEN r.stdout \o STDERR \o r.stderr
                     ELSE r.stdout]

\* --------------------------------------------------------- completion check
Contains(frag, text) == \E i \in 1..Len(text) : text[i] = frag

lower(text) == [i \in 1..Len(text) |-> Frag(text[i].phrase, "lower")]

\* A completion check whose second operand is the bare literal, which Python
\* takes as true.
is_complete_always(out) ==
    \/ Contains(Frag("task complete", "upper"), out)
    \/ TRUE

\* "TASK COMPLETE" in output or "All done" in output.lower()
is_complete(out) ==
    \/ Contains(Frag("task complete", "upper"), out)
    \/ Contains(Frag("all done", "capital"), lower(out))

\* A backoff that forgets to double.
sleep_delay_flat(code) == AUTO_CONTINUE_DELAY

\* if exit_code != 0: time.sleep(AUTO_CONTINUE_DELAY * 2) else the base delay
sleep_delay(code) ==
    IF code # 0 THEN AUTO_CONTINUE_DELAY * 2 ELSE AUTO_CONTINUE_DELAY

\* A ceiling test that is off by one.
ceiling_reached_early(max_iterations, it) ==
    max_iterations # None /\ max_iterations[1] # 0 /\ it >= max_iterations[1]

\* if args.max_iterations and iteration > args.max_iterations
ceiling_reached(max_iterations, it) ==
    max_iterations # None /\ max_iterations[1] # 0 /\ it > max_iterations[1]

\* A count that misses the first pass.
count_pass_late(p, it) == IF it > 1 THEN [p EXCEPT !.iterations = @ + 1] ELSE p

\* progress["iterations"] += 1
count_pass(p, it) == [p EXCEPT !.iterations = @ + 1]

\* A completion that records the task twice.
mark_complete_twice(p, task) ==
    [p EXCEPT !.tasks_completed = Append(Append(@, task), task)]

\* progress["tasks_completed"].append(args.task)
mark_complete(p, task) == [p EXCEPT !.tasks_completed = Append(@, task)]

\* A start-up that stamps started_at on every run.
stamp_started_always(p, t) == [p EXCEPT !.started_at = Some(t)]

\* if progress["started_at"] is None: progress["started_at"] = time.strftime(...)
stamp_started(p, t) ==
    IF p.started_at = None THEN [p EXCEPT !.started_at = Some(t)] ELSE p

\* A return that leaves last_session as it was.
stamp_session_skipped(p, t) == p

\* progress["last_session"] = time.strftime(...)
stamp_session(p, t) == [p EXCEPT !.last_session = Some(t)]

\* ------------------------------------------------------------------- state
VARIABLES
    args,         \* the parsed command line of the current run
    file,         \* autonomous/progress.json
    progress,     \* main's progress dictionary (None before it is loaded)
    prompt,       \* main's prompt
    iteration,    \* main's iteration
    pc,           \* where main is
    ending,       \* how main ended
    exit_code,    \* exit code of the last session that returned
    output,       \* output of the last session that returned
    delay,        \* argument of the last time.sleep
    now,          \* the clock read by time.strftime
    startFile,    \* the file when the current run began
    started,      \* sessions started in the current run
    returned,     \* sessions that returned in the current run
    saves,        \* save_progress calls of the current run
    edits         \* external writes to the file during the current run

vars == <<args, file, progress, prompt, iteration, pc, ending, exit_code,
          output, delay, now, startFile, started, returned, saves, edits>>

session == <<exit_code, output>>

history == <<startFile, started, returned, saves, edits>>

\* Records an earlier run of the program can have left in the file: it saved
\* with started_at set (time 0 is before this run), after at least one pass.
PriorRecords ==
    {[iterations |-> 1, tasks_completed |-> <<>>, current_task |-> None,
      next_task |-> None, started_at |-> Some(0), last_session |-> None],
     [iterations |-> 2, tasks_completed |-> <<>>,
      current_task |-> Some("Add feature Y"),
      next_task |-> Some([type |-> "bug_fix"]),
      started_at |-> Some(0), last_session |-> Some(0)],
     [iterations |-> 2, tasks_completed |-> <<"Add feature Y">>,
      current_task |-> Some("Add feature Y"), next_task |-> None,
      started_at |-> Some(0), last_session |-> Some(0)]}

StartFiles == {AbsentFile, EmptyFile, MalformedFile} \cup {JsonFile(p) : p \in PriorRecords}

Init ==
    /\ args \in Args
    /\ file \in StartFiles
    /\ progress = None
    /\ prompt = NoPrompt
    /\ iteration = 0
    /\ pc = "start"
    /\ ending = "none"
    /\ exit_code = 0
    /\ output = <<>>
    /\ delay = 0
    /\ now = 1
    /\ startFile = file
    /\ started = 0
    /\ returned = 0
    /\ saves = 0
    /\ edits = 0

\* main, line 426: progress = load_progress(); an exception here is outside
\* the try block and ends the program.
Load ==
    /\ pc = "start"
    /\ LET r == load_progress(file) IN
       IF r.raised
       THEN /\ pc' = "exited"
            /\ ending' = "error"
            /\ UNCHANGED progress
       ELSE /\ pc' = "loaded"
            /\ progress' = Some(r.value)
            /\ UNCHANGED ending
    /\ UNCHANGED <<args, file, prompt, iteration, session, delay, now, history>>

\* main, lines 427-442: started_at, current_task, the first prompt, dry run.
SetupWith(dry_run) ==
    /\ pc = "loaded"
    /\ LET p0 == progress[1]
           stamp == p0.started_at = None
           p1 == stamp_started(p0, now)
           p2 == IF args.task # None
                 THEN [p1 EXCEPT !.current_task = args.task] ELSE p1
       IN /\ progress' = Some(p2)
          /\ now' = IF stamp THEN now + 1 ELSE now
          /\ prompt' = IF args.task # None THEN get_task_prompt(args.task[1])
                       ELSE get_continuation_prompt(p2)
    /\ IF dry_run
       THEN pc' = "exited" /\ ending' = "dry_run"
       ELSE pc' = "top" /\ ending' = "none"
    /\ iteration' = 0
    /\ UNCHANGED <<args, file, session, delay, history>>

\* A start-up that does not look at --dry-run.
SetupIgnoringDryRun == SetupWith(FALSE)

Setup == SetupWith(args.dry_run)

\* main, lines 445-455: count the pass, stop at the ceiling (the finally block
\* saves), otherwise start a session.
LoopTop ==
    /\ pc = "top"
    /\ LET p1 == count_pass(progress[1], iteration + 1) IN
       /\ iteration' = iteration + 1
       /\ progress' = Some(p1)
       /\ IF ceiling_reached(args.max_iterations, iteration + 1)
          THEN /\ file' = save_progress(p1)
               /\ saves' = saves + 1
               /\ pc' = "exited"
               /\ ending' = "ceiling"
               /\ UNCHANGED started
          ELSE /\ started < MaxSessions
               /\ started' = started + 1
               /\ pc' = "session"
               /\ UNCHANGED <<file, saves, ending>>
    /\ UNCHANGED <<args, prompt, session, delay, now, startFile, returned, edits>>

\* main, lines 455-474 (and 484-485 after the break): the session returns,
\* last_session is stamped and saved, then failure backoff, completion or
\* the base delay.
SessionReturn(r) ==
    /\ pc = "session"
    /\ LET res == run_claude_session(r)
           p1 == stamp_session(progress[1], now)
           p2 == mark_complete(p1, args.task[1])
       IN /\ exit_code' = res.exit_code
          /\ output' = res.output
          /\ now' = now + 1
          /\ returned' = returned + 1
          /\ IF res.exit_code = 0 /\ is_complete(res.output) /\ args.task # None
             THEN /\ progress' = Some(p2)
                  /\ file' = save_progress(p2)
                  /\ saves' = saves + 3
                  /\ pc' = "exited"
                  /\ ending' = "completed"
                  /\ UNCHANGED delay
             ELSE /\ progress' = Some(p1)
                  /\ file' = save_progress(p1)
                  /\ saves' = saves + 1
                  /\ delay' = sleep_delay(res.exit_code)
                  /\ pc' = "sleep"
                  /\ UNCHANGED ending
    /\ UNCHANGED <<args, prompt, iteration, startFile, started, edits>>

\* main, lines 476-478: the sleep is over; reload the file and take the
\* continuation prompt.  An exception of the reload runs the finally block.
\* exit_code and output are not read again before the next session assigns
\* them, so they are cleared here.
SleepDone ==
    /\ pc = "sleep"
    /\ LET r == load_progress(file) IN
       IF r.raised
       THEN /\ file' = save_progress(progress[1])
            /\ saves' = saves + 1
            /\ pc' = "exited"
            /\ ending' = "error"
            /\ UNCHANGED <<progress, prompt, session>>
       ELSE /\ progress' = Some(r.value)
            /\ exit_code' = 0
            /\ output' = <<>>
            /\ prompt' = get_continuation_prompt(r.value)
            /\ pc' = "top"
            /\ UNCHANGED <<file, saves, ending>>
    /\ UNCHANGED <<args, iteration, delay, now, startFile,
                   started, returned, edits>>

\* An interrupt that is caught but followed by no save.
InterruptUnsaved ==
    /\ pc \in {"session", "sleep"}
    /\ pc' = "exited"
    /\ ending' = "interrupted"
    /\ UNCHANGED <<args, file, progress, prompt, iteration, session, delay, now,
                   history>>

\* main, lines 480-486: KeyboardInterrupt while the subprocess runs or during
\* time.sleep; the finally block saves.
Interrupt ==
    /\ pc \in {"session", "sleep"}
    /\ file' = save_progress(progress[1])
    /\ saves' = saves + 1
    /\ pc' = "exited"
    /\ ending' = "interrupted"
    /\ UNCHANGED <<args, progress, prompt, iteration, session, delay, now,
                   startFile, started, returned, edits>>

\* An external collaborator rewrites next_task in the progress file.
ExternalWrite(nt) ==
    /\ file.kind = "json"
    /\ edits < MaxEdits
    /\ file.data[1].next_task # nt
    /\ file' = JsonFile([file.data[1] EXCEPT !.next_task = nt])
    /\ edits' = edits + 1
    /\ UNCHANGED <<args, progress, prompt, iteration, pc, ending, session,
                   delay, now, startFile, started, returned, saves>>

Next ==
    \/ Load
    \/ Setup
    \/ LoopTop
    \/ \E r \in RawResults : SessionReturn(r)
    \/ SleepDone
    \/ Interrupt
    \/ \E nt \in NextTasks : ExternalWrite(nt)

Spec == Init /\ [][Next]_vars

\* ------------------------------------------------------------ claim helpers
TasksOf(f) == IF f.kind = "json" THEN f.data[1].tasks_completed ELSE <<>>

IterationsOf(f) == IF f.kind = "json" THEN f.data[1].iterations ELSE 0

IsPrefix(a, b) == Len(a) <= Len(b) /\ \A i \in 1..Len(a) : a[i] = b[i]

\* The output holds "task complete" or "all done" in some letter case.
HasMarkerAnyCase(out) ==
    \/ Contains(Frag("task complete", "lower"), lower(out))
    \/ Contains(Frag("all done", "lower"), lower(out))

HasTaskCompleteUpper(out) == Contains(Frag("task complete", "upper"), out)

\* The step in which a session returns to the loop.
SessionReturns == returned' = returned + 1

\* ------------------------------------------------------------------- C1
\* C1: in a run started with an explicit task T, every session is given the
\* task-focused instruction containing T.
C1_TaskPromptEverySession ==
    (args.task # None /\ pc = "session") => prompt = get_task_prompt(args.task[1])

\* ------------------------------------------------------------------- C2
\* C2: when a session returns exit code 0 with output containing
\* "TASK COMPLETE" and an explicit task T is set, the persisted
\* tasks_completed grows by exactly the one entry T, the record in memory is
\* the record on disk, the run ends, and no session is started afterwards.
C2_CompletionAppendsOnce ==
    [][/\ (SessionReturns /\ exit_code' = 0 /\ HasTaskCompleteUpper(output')
              /\ args.task # None)
          => /\ TasksOf(file') = Append(TasksOf(file), args.task[1])
             /\ file' = JsonFile(progress'[1])
             /\ pc' = "exited"
             /\ ending' = "completed"
       /\ ending = "completed" => (started' = started /\ pc' = "exited")]_vars

C2_Witness ==
    /\ ending = "completed"
    /\ exit_code = 0
    /\ HasTaskCompleteUpper(output)
    /\ TasksOf(startFile) = <<"Add feature Y">>
    /\ TasksOf(file) = <<"Add feature Y", "Fix bug X">>

\* ------------------------------------------------------------------- C3
\* C3: for every exit-0 output that contains "task complete" or "all done"
\* in any letter case, with an explicit task pinned, the task is appended to
\* tasks_completed and the loop stops.
C3_CaseInsensitiveCompletion ==
    [][(SessionReturns /\ exit_code' = 0 /\ HasMarkerAnyCase(output')
           /\ args.task # None)
       => /\ TasksOf(file') = Append(TasksOf(file), args.task[1])
          /\ ending' = "completed"]_vars

\* ------------------------------------------------------------------- C4
\* C4: a session that returns a non-zero exit code appends nothing and is
\* followed by a sleep of twice the base delay; a session that returns 0
\* without completing is followed by a sleep of the base delay.
C4_FailureBackoff ==
    [][SessionReturns =>
          /\ exit_code' # 0 =>
                /\ TasksOf(file') = TasksOf(file)
                /\ progress'[1].tasks_completed = progress[1].tasks_completed
                /\ pc' = "sleep"
                /\ delay' = 2 * AUTO_CONTINUE_DELAY
          /\ (exit_code' = 0 /\ ending' # "completed") =>
                /\ pc' = "sleep"
                /\ delay' = AUTO_CONTINUE_DELAY]_vars

C4_Witness ==
    /\ pc = "sleep"
    /\ exit_code # 0
    /\ HasTaskCompleteUpper(output)
    /\ args.task # None
    /\ delay = 2 * AUTO_CONTINUE_DELAY

\* ------------------------------------------------------------------- C5
\* C5: starting from the absent file with no ceiling, once N sessions have
\* returned the persisted iterations is N (a run whose last session was
\* interrupted before it returned aside); the persisted iterations never
\* decreases.
C5_IterationsCountSessions ==
    /\ []((startFile = AbsentFile /\ args.max_iterations = None
              /\ ~(ending = "interrupted" /\ started > returned))
          => IterationsOf(file) = returned)
    /\ [][IterationsOf(file') >= IterationsOf(file)]_vars

C5_Witness ==
    /\ startFile = AbsentFile
    /\ args.max_iterations = None
    /\ pc = "sleep"
    /\ exit_code # 0
    /\ returned = 2
    /\ IterationsOf(file) = 2

\* ------------------------------------------------------------------- C6
\* C6: with a ceiling M >= 1 no more than M sessions are started; the pass
\* after the M-th session stops the loop, and a run stopped by the ceiling
\* ran exactly M sessions and left tasks_completed as it found it.
C6_CeilingBoundsSessions ==
    /\ []((args.max_iterations # None /\ args.max_iterations[1] >= 1)
          => /\ started <= args.max_iterations[1]
             /\ ending = "ceiling" =>
                   /\ started = args.max_iterations[1]
                   /\ returned = args.max_iterations[1]
                   /\ TasksOf(file) = TasksOf(startFile))
    /\ [][(args.max_iterations # None /\ args.max_iterations[1] >= 1
             /\ pc = "top" /\ pc' # "top")
          => IF iteration < args.max_iterations[1]
             THEN pc' = "session"
             ELSE pc' = "exited" /\ ending' = "ceiling"]_vars

C6_Witness ==
    /\ args.max_iterations = Some(2)
    /\ ending = "ceiling"
    /\ started = 2
    /\ returned = 2

\* ------------------------------------------------------------------- C7
\* C7: a dry run starts no session and never saves; without an external
\* write the file is what it was when the run began.
C7_DryRunTouchesNothing ==
    args.dry_run =>
        /\ started = 0
        /\ saves = 0
        /\ pc \in {"start", "loaded", "exited"}
        /\ edits = 0 => file = startFile

C7_Witness ==
    /\ args.dry_run
    /\ args.task # None
    /\ ending = "dry_run"
    /\ file = startFile
    /\ file.kind = "json"

\* ------------------------------------------------------------------- C8
\* C8: load returns the default state, and does not raise, when the file is
\* absent and when it is present but empty.
C8_LoadDefaultsAbsentOrEmpty ==
    (startFile.kind \in {"absent", "empty"} /\ pc # "start")
    => /\ ending # "error"
       /\ pc = "loaded" => progress = Some(default_progress)

\* ------------------------------------------------------------------- C9
\* C9: if the file is malformed at startup the run ends in an error before
\* any session and without a save; the malformed content stays.
C9_MalformedIsFatal ==
    startFile = MalformedFile =>
        /\ pc \in {"start", "exited"}
        /\ pc = "exited" => ending = "error"
        /\ started = 0
        /\ saves = 0
        /\ file = MalformedFile

C9_Witness == startFile = MalformedFile /\ pc = "exited" /\ ending = "error"

\* ------------------------------------------------------------------ C10
\* C10: every persisted tasks_completed extends the previous one; it grows
\* only in a step where an explicit task is set and the session that just
\* returned printed a completion marker; with no explicit task it never
\* grows.
C10_AppendOnlyGated ==
    /\ [][/\ IsPrefix(TasksOf(file), TasksOf(file'))
          /\ TasksOf(file') # TasksOf(file) =>
                /\ args.task # None
                /\ SessionReturns
                /\ HasMarkerAnyCase(output')
                /\ TasksOf(file') = Append(TasksOf(file), args.task[1])]_vars
    /\ [](args.task = None => TasksOf(file) = TasksOf(startFile))

C10_Witness ==
    /\ args.task = Some("Add feature Y")
    /\ ending = "completed"
    /\ HasMarkerAnyCase(output)
    /\ TasksOf(startFile) = <<"Add feature Y">>
    /\ TasksOf(file) = <<"Add feature Y", "Add feature Y">>

\* ------------------------------------------------------------------ C11
\* C11: an interrupt during a session or a sleep is caught: the run ends,
\* no session starts afterwards, exactly one save follows the interrupt, and
\* the iterations on disk count every session started, the interrupted one
\* included.
C11_InterruptSavesOnce ==
    [][/\ (ending = "none" /\ ending' = "interrupted")
          => /\ pc \in {"session", "sleep"}
             /\ pc' = "exited"
             /\ saves' = saves + 1
             /\ started' = started
             /\ file' = JsonFile(progress[1])
             /\ IterationsOf(file') = IterationsOf(startFile) + started
       /\ ending = "interrupted"
          => /\ saves' = saves
             /\ started' = started
             /\ pc' = "exited"
             /\ ending' = "interrupted"
             /\ IterationsOf(file') = IterationsOf(file)]_vars

C11_Witness ==
    /\ ending = "interrupted"
    /\ started = 2
    /\ returned = 1
    /\ IterationsOf(startFile) = 2
    /\ IterationsOf(file) = 4

\* ------------------------------------------------------------------ C12
\* C12: a timeout or a spawn failure comes back as a failure outcome
\* (non-zero exit code, output TIMEOUT or the error text); the loop then
\* takes the failure path: no append, the doubled delay, no end of the run.
C12_TimeoutIsFailureOutcome ==
    /\ [](\A r \in RawResults :
            /\ r.kind = "timeout" =>
                  /\ run_claude_session(r).exit_code # 0
                  /\ run_claude_session(r).output = TIMEOUT
            /\ r.kind = "error" =>
                  /\ run_claude_session(r).exit_code # 0
                  /\ run_claude_session(r).output = ErrorText)
    /\ [][(SessionReturns /\ output' \in {TIMEOUT, ErrorText})
          => /\ exit_code' # 0
             /\ pc' = "sleep"
             /\ ending' = "none"
             /\ delay' = 2 * AUTO_CONTINUE_DELAY
             /\ TasksOf(file') = TasksOf(file)]_vars
    /\ [][(pc = "sleep" /\ exit_code # 0 /\ pc' # "sleep")
          => (pc' = "top" \/ ending' = "interrupted")]_vars

C12_Witness ==
    /\ pc = "sleep"
    /\ output = TIMEOUT
    /\ exit_code # 0
    /\ delay = 2 * AUTO_CONTINUE_DELAY
    /\ args.task # None
    /\ returned = 2

\* ------------------------------------------------------------------ C13
\* C13: with no explicit task, the next_task on disk when the sleep ends
\* decides the next session's instruction: bug_fix gives the bug-fix
\* instruction, openspec the proposal instruction, anything else or nothing
\* the default one; the session is started with that instruction.
InstructionFor(nt) ==
    IF nt = None THEN "default"
    ELSE IF nt[1].type = "bug_fix" THEN "bug_fix"
    ELSE IF nt[1].type = "openspec" THEN "openspec"
    ELSE "default"

C13_ExternalNextTaskSelectsPrompt ==
    [][args.task = None =>
          /\ (pc = "sleep" /\ pc' = "top")
             => prompt'.kind = InstructionFor(file.data[1].next_task)
          /\ (pc = "top" /\ pc' = "session") => prompt' = prompt]_vars

C13_Witness ==
    /\ args.task = None
    /\ startFile = AbsentFile
    /\ pc = "session"
    /\ started = 2
    /\ edits = 1
    /\ prompt.kind = "openspec"

\* ------------------------------------------------------------------ C14
\* C14: started_at is set at startup only when the loaded value is null, and
\* a non-null started_at on disk is never replaced by a different value.
StartedAtOf(f) == IF f.kind = "json" THEN f.data[1].started_at ELSE None

C14_StartedAtWriteOnce ==
    [][/\ StartedAtOf(file) # None => StartedAtOf(file') = StartedAtOf(file)
       /\ (pc = "loaded" /\ pc' # "loaded")
          => progress'[1].started_at =
                IF progress[1].started_at = None THEN Some(now)
                ELSE progress[1].started_at
       /\ (pc \notin {"start", "loaded"} /\ progress' # progress)
          => progress'[1].started_at = progress[1].started_at]_vars

C14_Witness ==
    /\ StartedAtOf(startFile) = Some(0)
    /\ saves >= 2
    /\ returned = 2
    /\ StartedAtOf(file) = Some(0)

\* ------------------------------------------------------------------ C15
\* C15: every save of the orchestrator writes the next_task that was on disk
\* immediately before the save, so no external edit of next_task is lost.
C15_NoLostExternalEdit ==
    [][(saves' > saves /\ file.kind = "json")
       => file'.data[1].next_task = file.data[1].next_task]_vars

\* ------------------------------------------------------------------ C16
\* C16: however the loop ends (completion, ceiling, interruption), the
\* persisted iterations minus its value at startup is the number of sessions
\* started in the run.
C16_IterationsEqualSessionsStarted ==
    (pc = "exited" /\ ending \in {"completed", "ceiling", "interrupted"})
    => IterationsOf(file) - IterationsOf(startFile) = started

\* ------------------------------------------------------------------ C17
\* C17: with a ceiling of 0 the loop stops on the first pass, before any
\* session is run.
C17_ZeroCeilingRunsNothing ==
    args.max_iterations = Some(0) => (started = 0 /\ pc # "session")

\* ------------------------------------------------------------------ C18
\* C18: when a session returns, whatever its outcome, the record with the
\* new last_session and the counted iterations is on disk when the sleep
\* begins; a completion adds its own saves after that one.
C18_SavedAfterEverySession ==
    [][SessionReturns =>
          /\ file'.kind = "json"
          /\ file'.data[1].last_session = Some(now)
          /\ file'.data[1].iterations = IterationsOf(startFile) + started
          /\ pc' = "sleep" => (saves' = saves + 1 /\ file' = JsonFile(progress'[1]))
          /\ pc' # "sleep" => (ending' = "completed" /\ saves' = saves + 3)]_vars

C18_Witness ==
    /\ pc = "sleep"
    /\ exit_code # 0
    /\ output = ErrorText
    /\ returned = 2
    /\ file.data[1].last_session = Some(now - 1)
    /\ file.data[1].iterations = IterationsOf(startFile) + 2

\* ------------------------------------------------------------------ C19
\* C19: an explicit task T is appended to tasks_completed only after a
\* session that was given the task-focused instruction for T.
C19_AppendOnlyAfterTaskPrompt ==
    [][TasksOf(file') # TasksOf(file)
       => (args.task # None /\ prompt = get_task_prompt(args.task[1]))]_vars

\* ------------------------------------------------------------------ C20
\* C20: after any save of a run the persisted current_task is the run's
\* explicit task, and null when the run has none.
C20_CurrentTaskDescribesRun ==
    saves > 0 => file.data[1].current_task = args.task
====
